---- MODULE Spec2Model ----
(***************************************************************************)
(* Model of polygon_to_bbox.py: the YOLO polygon -> bounding box           *)
(* converter.  polygon_to_bbox and process_line are pure functions and are *)
(* modelled as operators; convert_file, batch_convert and main are         *)
(* modelled as a sequential process over a small file system.              *)
(*                                                                         *)
(* Representation.                                                         *)
(*  - A text line is a sequence whose elements are either WS (a run of     *)
(*    whitespace, the trailing newline included) or a token (a maximal run *)
(*    of non-whitespace characters, a string).  Two tokens are never       *)
(*    adjacent: they would be one token.                                   *)
(*  - A float is an integer number of millionths (1.0 = 1000000), so that  *)
(*    the ".6f" conversion is exact.  The coordinate tokens of the model   *)
(*    have one decimal digit, so halving a sum of two of them is exact.    *)
(***************************************************************************)
EXTENDS Integers, Sequences, FiniteSets, TLC

VARIABLES
    pc,               \* position of the running call
    polygon_coords,   \* argument of polygon_to_bbox (SpecBbox)
    line,             \* argument of process_line (SpecLine)
    ret,              \* value returned (or exception raised) by the call
    stdout,           \* diagnostics printed so far, oldest first
    args,             \* main: parsed command line
    fs,               \* the file system: path -> node
    lines,            \* convert_file: lines read from the input file
    i,                \* convert_file: number of lines consumed by the loop
    converted_lines,  \* convert_file: output lines collected so far
    skipped_lines,    \* convert_file: skip counter
    txt_files,        \* batch_convert: the enumerated files, in glob order
    k,                \* batch_convert: number of enumerated files attempted
    input_file,       \* convert_file: its first argument
    output_file,      \* convert_file: its second argument
    attempts,         \* history: the input_file of every convert_file call
    fs0,              \* history: the file system when the process started
    exit_code         \* process exit status, -1 while running

vars == <<pc, polygon_coords, line, ret, stdout, args, fs, lines, i,
          converted_lines, skipped_lines, txt_files, k, input_file,
          output_file, attempts, fs0, exit_code>>

ValueError == "ValueError"
WS == " "

----------------------------------------------------------------------------
(* Bounds of the model *)

MaxCoords == 7
MaxTokens == 8
MaxLines == 4
MaxFiles == 2

----------------------------------------------------------------------------
(* Inputs *)

\* float(): the tokens Python parses as a number, with their value in
\* millionths.  Any other token raises ValueError.
FloatTable == ("0.1" :> 100000) @@ ("0.2" :> 200000) @@ ("0.9" :> 900000)

Tokens == DOMAIN FloatTable \cup {"cat"}

SeqsUpTo(S, n) == UNION {[1..m -> S] : m \in 0..n}

\* The text of a line holding the tokens toks, separated by whitespace,
\* with leading and trailing whitespace when pad.
RECURSIVE Join(_)
Join(toks) ==
    IF Len(toks) = 0 THEN <<>>
    ELSE IF Len(toks) = 1 THEN toks
    ELSE <<Head(toks), WS>> \o Join(Tail(toks))

Text(toks, pad) == IF pad THEN <<WS>> \o Join(toks) \o <<WS>> ELSE Join(toks)

----------------------------------------------------------------------------
(* Built-ins used by the code *)

IsFloat(tok) == tok \in DOMAIN FloatTable

float(tok) == FloatTable[tok]

\* Mutant: the first element instead of the smallest
min_first(s) == s[1]

\* Mutant: the last element instead of the largest
max_last(s) == s[Len(s)]

RECURSIVE min(_)
min(s) ==
    IF Len(s) = 1 THEN s[1]
    ELSE LET m == min(SubSeq(s, 1, Len(s) - 1))
         IN  IF s[Len(s)] < m THEN s[Len(s)] ELSE m

RECURSIVE max(_)
max(s) ==
    IF Len(s) = 1 THEN s[1]
    ELSE LET m == max(SubSeq(s, 1, Len(s) - 1))
         IN  IF s[Len(s)] > m THEN s[Len(s)] ELSE m

\* str.strip(): leading and trailing whitespace removed
RECURSIVE lstrip(_)
lstrip(l) == IF Len(l) > 0 /\ Head(l) = WS THEN lstrip(Tail(l)) ELSE l

RECURSIVE rstrip(_)
rstrip(l) ==
    IF Len(l) > 0 /\ l[Len(l)] = WS THEN rstrip(SubSeq(l, 1, Len(l) - 1)) ELSE l

strip(l) == rstrip(lstrip(l))

\* str.split(): the maximal runs of non-whitespace
split(l) == SelectSeq(l, LAMBDA e : e # WS)

\* "{v:.6f}" of a non-negative value in millionths
Zeros(n) == [j \in 1..n |-> "0"]

RECURSIVE Concat(_)
Concat(ss) == IF Len(ss) = 0 THEN "" ELSE Head(ss) \o Concat(Tail(ss))

Fmt6(v) ==
    LET frac == ToString(v % 1000000)
    IN  ToString(v \div 1000000) \o "." \o Concat(Zeros(6 - Len(frac))) \o frac

----------------------------------------------------------------------------
(* polygon_to_bbox *)

\* Mutant: only the x of complete (x, y) pairs, a trailing value dropped
x_coords_paired(coords) ==
    [j \in 1..(Len(coords) \div 2) |-> float(coords[2 * j - 1])]

x_coords(coords) ==
    [j \in 1..((Len(coords) + 1) \div 2) |-> float(coords[2 * j - 1])]

y_coords(coords) ==
    [j \in 1..(Len(coords) \div 2) |-> float(coords[2 * j])]

\* Outcome of a call: an exception raised, None returned, or a value returned.
Raise(e) == [kind |-> "raise", exc |-> e]

ReturnNone == [kind |-> "none"]

Return(v) == [kind |-> "value", value |-> v]

NoCall == [kind |-> "nocall"]

\* One print(): the fixed text and the numbers formatted into it.
Msg(text, nums) == [text |-> text, nums |-> nums]

\* The bounding box, or ValueError (raised by the length check or by float()).
polygon_to_bbox(coords) ==
    IF Len(coords) < 6 THEN Raise(ValueError)
    ELSE IF \E j \in 1..Len(coords) : ~IsFloat(coords[j]) THEN Raise(ValueError)
    ELSE LET min_x == min(x_coords(coords))
             max_x == max(x_coords(coords))
             min_y == min(y_coords(coords))
             max_y == max(y_coords(coords))
         IN  Return([center_x |-> (min_x + max_x) \div 2,
                     center_y |-> (min_y + max_y) \div 2,
                     width    |-> max_x - min_x,
                     height   |-> max_y - min_y])

----------------------------------------------------------------------------
(* process_line *)

TooFew == "Warning: Skipping invalid line (too few coordinates)"
ErrorProcessing == "Warning: Error processing line"

\* Mutant: no try/except around polygon_to_bbox
process_line_no_catch(l) ==
    LET parts == split(strip(l))
    IN  IF Len(parts) < 7
        THEN [result |-> ReturnNone, printed |-> <<Msg(TooFew, <<>>)>>]
        ELSE LET call == polygon_to_bbox(Tail(parts))
             IN  IF call.kind = "raise"
                 THEN [result |-> call, printed |-> <<>>]
                 ELSE [result |-> Return(<<parts[1], WS,
                                           Fmt6(call.value.center_x), WS,
                                           Fmt6(call.value.center_y), WS,
                                           Fmt6(call.value.width), WS,
                                           Fmt6(call.value.height)>>),
                       printed |-> <<>>]

\* result: the text returned (class_id and the four numbers, separated by
\* single spaces), or None; printed: the diagnostics printed.
process_line(l) ==
    LET parts == split(strip(l))
    IN  IF Len(parts) < 7
        THEN [result |-> ReturnNone, printed |-> <<Msg(TooFew, <<>>)>>]
        ELSE LET class_id == parts[1]
                 call == polygon_to_bbox(Tail(parts))
             IN  IF call.kind = "raise"
                 THEN [result |-> ReturnNone,
                       printed |-> <<Msg(ErrorProcessing, <<>>)>>]
                 ELSE [result |-> Return(<<class_id, WS,
                                           Fmt6(call.value.center_x), WS,
                                           Fmt6(call.value.center_y), WS,
                                           Fmt6(call.value.width), WS,
                                           Fmt6(call.value.height)>>),
                       printed |-> <<>>]

----------------------------------------------------------------------------
(* The file system *)

\* A path: the directory, and the file name split as pathlib splits it
\* (stem, suffix).  A directory's own path has an empty name.
Path(d, stem, suffix) == [dir |-> d, stem |-> stem, suffix |-> suffix]

DirPath(d) == Path(d, "", "")

NoPath == Path("", "", "")

\* Path.with_suffix
with_suffix(p, suffix) == Path(p.dir, p.stem, suffix)

\* directory / name
Child(d, f) == Path(d.dir, f.stem, f.suffix)

\* directory / "bbox_converted"
Subdir(d, name) == DirPath(d.dir \o "/" \o name)

Absent == [kind |-> "absent", content |-> <<>>]

Dir == [kind |-> "dir", content |-> <<>>]

File(content) == [kind |-> "file", content |-> content]

\* os.path.exists / Path.exists
exists(p) == fs[p].kind # "absent"

\* open(p, 'r') and open(p, 'w') raise on a directory (IsADirectoryError)
\* and, for writing, when the parent directory is missing.
CanRead(p) == fs[p].kind = "file"

CanWrite(p) == fs[p].kind # "dir" /\ fs[DirPath(p.dir)].kind = "dir"

\* Mutant: every entry of the directory, whatever its suffix
glob_all(d) ==
    {p \in DOMAIN fs : p.dir = d.dir /\ p.stem # "" /\ exists(p)}

\* Path.glob("*.txt"): the entries of the directory whose name ends in .txt
glob_txt(d) ==
    {p \in DOMAIN fs : p.dir = d.dir /\ p.suffix = ".txt" /\ exists(p)}

\* Every order in which the operating system may list a set of paths
Orders(S) ==
    {o \in [1..Cardinality(S) -> S] :
        \A a, b \in 1..Cardinality(S) : a # b => o[a] # o[b]}

----------------------------------------------------------------------------
(* main, batch_convert, convert_file *)

\* Mutant: the exception ends the run, in batch mode too
RaiseAbortsRun ==
    /\ stdout' = Append(stdout, Msg("Error", <<>>))
    /\ exit_code' = 1
    /\ pc' = "done"
    /\ UNCHANGED k

\* Mutant: main's handler prints the error and forgets sys.exit(1)
RaiseExitsZero ==
    IF args.batch
    THEN /\ stdout' = Append(stdout, Msg("Error processing", <<>>))
         /\ k' = k + 1
         /\ pc' = "batch_loop"
         /\ UNCHANGED exit_code
    ELSE /\ stdout' = Append(stdout, Msg("Error", <<>>))
         /\ exit_code' = 0
         /\ pc' = "done"
         /\ UNCHANGED k

\* The exception leaves convert_file.  batch_convert catches it per file
\* (line 156); in single-file mode it reaches main's handler (line 197).
RaiseFromConvertFile ==
    IF args.batch
    THEN /\ stdout' = Append(stdout, Msg("Error processing", <<>>))
         /\ k' = k + 1
         /\ pc' = "batch_loop"
         /\ UNCHANGED exit_code
    ELSE /\ stdout' = Append(stdout, Msg("Error", <<>>))
         /\ exit_code' = 1
         /\ pc' = "done"
         /\ UNCHANGED k

\* convert_file returns to its caller.
ReturnFromConvertFile(out) ==
    IF args.batch
    THEN /\ stdout' = Append(out, Msg("OK", <<>>))
         /\ k' = k + 1
         /\ pc' = "batch_loop"
         /\ UNCHANGED exit_code
    ELSE /\ stdout' = out
         /\ exit_code' = 0
         /\ pc' = "done"
         /\ UNCHANGED k

\* main, single-file mode: derive the output name and call convert_file
MainSingle ==
    /\ pc = "main"
    /\ ~args.batch
    /\ input_file' = args.input
    /\ output_file' = IF args.output = NoPath
                      THEN with_suffix(args.input, ".bbox.txt")
                      ELSE args.output
    /\ attempts' = Append(attempts, args.input)
    /\ pc' = "convert_file"
    /\ UNCHANGED <<polygon_coords, line, ret, stdout, args, fs, lines, i,
                   converted_lines, skipped_lines, txt_files, k, fs0,
                   exit_code>>

\* convert_file up to the loop: existence check, open, readlines
ConvertFileRead ==
    /\ pc = "convert_file"
    /\ IF ~exists(input_file) \/ ~CanRead(input_file)
       THEN /\ RaiseFromConvertFile
            /\ UNCHANGED <<lines, i, converted_lines, skipped_lines>>
       ELSE /\ converted_lines' = <<>>
            /\ skipped_lines' = 0
            /\ lines' = fs[input_file].content
            /\ i' = 0
            /\ stdout' = Append(stdout,
                                Msg("Processing", <<Len(fs[input_file].content)>>))
            /\ pc' = "loop"
            /\ UNCHANGED <<k, exit_code>>
    /\ UNCHANGED <<polygon_coords, line, ret, args, fs, txt_files,
                   input_file, output_file, attempts, fs0>>

\* `if converted_line:` -- None and the empty string are false
Truthy(r) == r.kind = "value" /\ r.value # <<>>

\* Mutant: empty lines are not filtered out
never_empty(l) == FALSE

\* `if not line:` on the stripped line
is_empty(l) == l = <<>>

\* Mutant: the new line is put in front of the list
prepend(list, x) == <<x>> \o list

\* list.append
append(list, x) == Append(list, x)

\* Mutant: a skipped line ends the loop (break)
ConvertFileLineBreak ==
    /\ pc = "loop"
    /\ i < Len(lines)
    /\ LET l == strip(lines[i + 1])
           r == process_line(l)
       IN  IF is_empty(l)
           THEN i' = i + 1 /\ UNCHANGED <<converted_lines, skipped_lines, stdout>>
           ELSE /\ stdout' = stdout \o r.printed
                /\ IF Truthy(r.result)
                   THEN /\ converted_lines' = append(converted_lines, r.result.value)
                        /\ i' = i + 1
                        /\ UNCHANGED skipped_lines
                   ELSE /\ skipped_lines' = skipped_lines + 1
                        /\ i' = Len(lines)
                        /\ UNCHANGED converted_lines
    /\ UNCHANGED <<pc, polygon_coords, line, ret, args, fs, lines, txt_files,
                   k, input_file, output_file, attempts, fs0, exit_code>>

\* one iteration of the loop over the lines
ConvertFileLine ==
    /\ pc = "loop"
    /\ i < Len(lines)
    /\ i' = i + 1
    /\ LET l == strip(lines[i + 1])
           r == process_line(l)
       IN  IF is_empty(l)
           THEN UNCHANGED <<converted_lines, skipped_lines, stdout>>
           ELSE /\ stdout' = stdout \o r.printed
                /\ IF Truthy(r.result)
                   THEN /\ converted_lines' = append(converted_lines, r.result.value)
                        /\ UNCHANGED skipped_lines
                   ELSE /\ skipped_lines' = skipped_lines + 1
                        /\ UNCHANGED converted_lines
    /\ UNCHANGED <<pc, polygon_coords, line, ret, args, fs, lines, txt_files,
                   k, input_file, output_file, attempts, fs0, exit_code>>

\* convert_file after the loop: write the output file, print the statistics
ConvertFileWrite ==
    /\ pc = "loop"
    /\ i = Len(lines)
    /\ IF ~CanWrite(output_file)
       THEN /\ RaiseFromConvertFile
            /\ UNCHANGED fs
       ELSE /\ fs' = [fs EXCEPT ![output_file] =
                         File([j \in 1..Len(converted_lines) |->
                                  converted_lines[j] \o <<WS>>])]
            /\ ReturnFromConvertFile(
                   Append(stdout, Msg("Statistics",
                       <<Len(lines), Len(converted_lines), skipped_lines>>)))
    /\ UNCHANGED <<polygon_coords, line, ret, args, lines, i, converted_lines,
                   skipped_lines, txt_files, input_file, output_file,
                   attempts, fs0>>

\* the output directory batch_convert uses
OutputDir ==
    IF args.output = NoPath THEN Subdir(args.input, "bbox_converted")
    ELSE args.output

\* main, batch mode: batch_convert up to its loop
BatchStart ==
    /\ pc = "main"
    /\ args.batch
    /\ IF ~exists(args.input) \/ fs[OutputDir].kind = "file"
       THEN \* FileNotFoundError (line 136) or mkdir's FileExistsError
            /\ stdout' = Append(stdout, Msg("Error", <<>>))
            /\ exit_code' = 1
            /\ pc' = "done"
            /\ UNCHANGED <<fs, txt_files>>
       ELSE /\ fs' = [fs EXCEPT ![OutputDir] = Dir]
            /\ \E order \in Orders(glob_txt(args.input)) : txt_files' = order
            /\ IF glob_txt(args.input) = {}
               THEN /\ stdout' = Append(stdout, Msg("No .txt files found", <<>>))
                    /\ exit_code' = 0
                    /\ pc' = "done"
               ELSE /\ stdout' = Append(stdout,
                            Msg("Found", <<Cardinality(glob_txt(args.input))>>))
                    /\ pc' = "batch_loop"
                    /\ UNCHANGED exit_code
    /\ UNCHANGED <<polygon_coords, line, ret, args, lines, i, converted_lines,
                   skipped_lines, k, input_file, output_file, attempts, fs0>>

\* batch_convert: the next enumerated file
BatchNext ==
    /\ pc = "batch_loop"
    /\ k < Len(txt_files)
    /\ input_file' = txt_files[k + 1]
    /\ output_file' = Child(OutputDir, txt_files[k + 1])
    /\ attempts' = Append(attempts, txt_files[k + 1])
    /\ pc' = "convert_file"
    /\ UNCHANGED <<polygon_coords, line, ret, stdout, args, fs, lines, i,
                   converted_lines, skipped_lines, txt_files, k, fs0,
                   exit_code>>

\* batch_convert returns; main returns
BatchDone ==
    /\ pc = "batch_loop"
    /\ k = Len(txt_files)
    /\ exit_code' = 0
    /\ pc' = "done"
    /\ UNCHANGED <<polygon_coords, line, ret, stdout, args, fs, lines, i,
                   converted_lines, skipped_lines, txt_files, k, input_file,
                   output_file, attempts, fs0>>

----------------------------------------------------------------------------
(* Inputs of main *)

Nl(toks) == Join(toks) \o <<WS>>

\* Lines a label file may hold, each as readlines() returns it
BlankLine == <<WS>>
ValidLine == Nl(<<"0", "0.1", "0.1", "0.2", "0.1", "0.2", "0.2", "0.1", "0.2">>)
ValidLine2 == <<WS>> \o Nl(<<"cat", "0.1", "0.2", "0.9", "0.2", "0.9", "0.9">>)
ShortLine == Nl(<<"0", "0.1", "0.1", "0.2", "0.2">>)
BadLine == Nl(<<"0", "0.1", "0.1", "0.2", "0.1", "0.2", "cat">>)

LinePool == {BlankLine, ValidLine, ValidLine2, ShortLine, BadLine}

FileContents == SeqsUpTo(LinePool, MaxLines)

BatchContents == {<<>>, <<ValidLine>>, <<ShortLine, ValidLine2>>}

OldContent == <<Nl(<<"old">>)>>

Cwd == DirPath(".")
LabelsTxt == Path(".", "labels", ".txt")
LabelsBbox == Path(".", "labels", ".bbox.txt")
OutTxt == Path(".", "out", ".txt")

InDir == DirPath("in")
OutDir == DirPath("out")
DefaultOutDir == Subdir(InDir, "bbox_converted")
Stems == <<"a", "b", "c", "d">>
NamesFile == Path("in", "classes", ".names")
TxtNames == {Path("", Stems[j], ".txt") : j \in 1..MaxFiles}
InPaths == {Child(InDir, f) : f \in TxtNames}
OutPaths(d) == {Child(d, f) : f \in TxtNames}

AllPaths ==
    {Cwd, LabelsTxt, LabelsBbox, OutTxt, InDir, OutDir, DefaultOutDir, NamesFile,
     Child(OutDir, NamesFile), Child(DefaultOutDir, NamesFile)}
      \cup InPaths \cup OutPaths(OutDir) \cup OutPaths(DefaultOutDir)

Empty == [p \in AllPaths |-> IF p = Cwd THEN Dir ELSE Absent]

\* f where defined, g elsewhere
Over(f, g) == [p \in DOMAIN g |-> IF p \in DOMAIN f THEN f[p] ELSE g[p]]

SingleArgs == [batch : {FALSE}, input : {LabelsTxt}, output : {NoPath, OutTxt}]

SingleFs(a) ==
    LET out == IF a.output = NoPath THEN LabelsBbox ELSE a.output
    IN  {Over((LabelsTxt :> n) @@ (out :> o), Empty) :
            n \in {Absent, Dir} \cup {File(c) : c \in FileContents},
            o \in {Absent, Dir, File(OldContent)}}

BatchArgs == [batch : {TRUE}, input : {InDir}, output : {NoPath, OutDir}]

BatchFs(a) ==
    LET od == IF a.output = NoPath THEN DefaultOutDir ELSE a.output
        present == Over((InDir :> Dir) @@ (NamesFile :> File(<<>>)), Empty)
    IN  {Over((od :> o), Empty) :
            o \in IF a.output = NoPath THEN {Absent} ELSE {Absent, Dir}}
        \cup
        {Over(ins @@ (od :> o), present) :
            ins \in [InPaths -> {Absent, Dir} \cup {File(c) : c \in BatchContents}],
            o \in {Absent, File(OldContent)}}
        \cup
        {Over(ins @@ outs @@ (od :> Dir), present) :
            ins \in [InPaths -> {Absent, Dir} \cup {File(c) : c \in BatchContents}],
            outs \in [OutPaths(od) -> {Absent, Dir, File(OldContent)}]}

IdleCore ==
    /\ polygon_coords = <<>> /\ line = <<>> /\ ret = NoCall

InitMain ==
    /\ pc = "main"
    /\ IdleCore
    /\ stdout = <<>>
    /\ \/ args \in SingleArgs /\ fs \in SingleFs(args)
       \/ args \in BatchArgs /\ fs \in BatchFs(args)
    /\ fs0 = fs
    /\ lines = <<>> /\ i = 0 /\ converted_lines = <<>> /\ skipped_lines = 0
    /\ txt_files = <<>> /\ k = 0
    /\ input_file = NoPath /\ output_file = NoPath
    /\ attempts = <<>>
    /\ exit_code = -1

NextMain ==
    \/ MainSingle
    \/ ConvertFileRead
    \/ ConvertFileLine
    \/ ConvertFileWrite
    \/ BatchStart
    \/ BatchNext
    \/ BatchDone

Spec == InitMain /\ [][NextMain]_vars

----------------------------------------------------------------------------
(* Variables a specification does not use keep these values *)

IdleMain ==
    /\ args = [batch |-> FALSE, input |-> NoPath, output |-> NoPath]
    /\ fs = Empty /\ fs0 = Empty
    /\ lines = <<>> /\ i = 0
    /\ converted_lines = <<>> /\ skipped_lines = 0
    /\ txt_files = <<>> /\ k = 0
    /\ input_file = NoPath /\ output_file = NoPath
    /\ attempts = <<>> /\ exit_code = -1

mainVars == <<args, fs, lines, i, converted_lines, skipped_lines, txt_files,
              k, input_file, output_file, attempts, fs0, exit_code>>

----------------------------------------------------------------------------
(* SpecBbox: polygon_to_bbox applied to every coordinate list *)

InitBbox ==
    /\ pc = "call"
    /\ polygon_coords \in SeqsUpTo(Tokens, MaxCoords)
    /\ line = <<>>
    /\ ret = NoCall
    /\ stdout = <<>>
    /\ IdleMain

CallPolygonToBbox ==
    /\ pc = "call"
    /\ ret' = polygon_to_bbox(polygon_coords)
    /\ pc' = "returned"
    /\ UNCHANGED <<polygon_coords, line, stdout, mainVars>>

NextBbox == CallPolygonToBbox

SpecBbox == InitBbox /\ [][NextBbox]_vars

----------------------------------------------------------------------------
(* SpecLine: process_line applied to every line *)

InitLine ==
    /\ pc = "call"
    /\ \E toks \in SeqsUpTo(Tokens, MaxTokens), pad \in BOOLEAN :
           line = Text(toks, pad)
    /\ polygon_coords = <<>>
    /\ ret = NoCall
    /\ stdout = <<>>
    /\ IdleMain

CallProcessLine ==
    /\ pc = "call"
    /\ ret' = process_line(line).result
    /\ stdout' = stdout \o process_line(line).printed
    /\ pc' = "returned"
    /\ UNCHANGED <<polygon_coords, line, mainVars>>

NextLine == CallProcessLine

SpecLine == InitLine /\ [][NextLine]_vars

----------------------------------------------------------------------------
(* Vocabulary of the properties, defined without the code's min and max *)

SetMin(S) == CHOOSE m \in S : \A e \in S : m <= e

SetMax(S) == CHOOSE m \in S : \A e \in S : m >= e

AllFloat(c) == \A j \in 1..Len(c) : IsFloat(c[j])

\* The x and the y values of the vertices: the complete (x, y) pairs
VertexXs(c) == {float(c[2 * j - 1]) : j \in 1..(Len(c) \div 2)}

VertexYs(c) == {float(c[2 * j]) : j \in 1..(Len(c) \div 2)}

\* The value left over when the list has odd length
Trailing(c) == IF Len(c) % 2 = 1 THEN {float(c[Len(c)])} ELSE {}

ExtentBox(xs, ys) ==
    [center_x |-> (SetMin(xs) + SetMax(xs)) \div 2,
     center_y |-> (SetMin(ys) + SetMax(ys)) \div 2,
     width    |-> SetMax(xs) - SetMin(xs),
     height   |-> SetMax(ys) - SetMin(ys)]

BboxReturned ==
    pc = "returned" /\ Len(polygon_coords) >= 6 /\ AllFloat(polygon_coords)

\* C1 as stated: for every list of at least 6 numeric values polygon_to_bbox
\* returns the midpoint and the extent of the min/max of the x values and of
\* the y values of all vertices, with width >= 0 and height >= 0.
C1_AsStated ==
    BboxReturned =>
        /\ ret = Return(ExtentBox(VertexXs(polygon_coords),
                                  VertexYs(polygon_coords)))
        /\ ret.value.width >= 0
        /\ ret.value.height >= 0

\* C1 amended: the x extent is taken over the vertices' x values and, when
\* the list has odd length, the trailing unpaired value as well; the y extent
\* over the vertices' y values; width >= 0 and height >= 0.
C1_Extent ==
    BboxReturned =>
        /\ ret = Return(ExtentBox(VertexXs(polygon_coords)
                                      \cup Trailing(polygon_coords),
                                  VertexYs(polygon_coords)))
        /\ ret.value.width >= 0
        /\ ret.value.height >= 0

\* C1 witness: a list of 7 numeric values whose trailing value lies right of
\* every vertex, and a box of positive width and height
C1_Witness ==
    /\ BboxReturned
    /\ Len(polygon_coords) = 7
    /\ float(polygon_coords[7]) > SetMax(VertexXs(polygon_coords))
    /\ ret.kind = "value"
    /\ ret.value.width > 0
    /\ ret.value.height > 0

\* The vertices of c reordered by p, each (x, y) pair kept together
PermuteVertices(c, p) ==
    [j \in 1..Len(c) |-> c[2 * p[(j + 1) \div 2] - (j % 2)]]

VertexOrders(n) ==
    {p \in [1..n -> 1..n] : \A a, b \in 1..n : a # b => p[a] # p[b]}

\* C10: for every list of at least 3 (x, y) vertices, every reordering of the
\* vertices gives the same (center_x, center_y, width, height).
C10_PermutationInvariant ==
    (BboxReturned /\ Len(polygon_coords) % 2 = 0) =>
        \A p \in VertexOrders(Len(polygon_coords) \div 2) :
            polygon_to_bbox(PermuteVertices(polygon_coords, p)) = ret

\* C10 witness: three vertices that are not all equal, so that reorderings
\* are different lists
C10_Witness ==
    /\ BboxReturned
    /\ Len(polygon_coords) = 6
    /\ ret.kind = "value"
    /\ \E p \in VertexOrders(3) :
           PermuteVertices(polygon_coords, p) # polygon_coords
    /\ ret.value.width > 0

----------------------------------------------------------------------------
(* process_line *)

\* The tokens of the line, and the line without its final token
Parts == split(line)

Truncated == Join(SubSeq(Parts, 1, Len(Parts) - 1))

\* A line with an odd number (at least 7) of coordinate tokens whose paired
\* coordinate tokens are all numeric
OddLine ==
    /\ pc = "returned"
    /\ Len(Parts) >= 8
    /\ Len(Parts) % 2 = 0
    /\ AllFloat(SubSeq(Parts, 2, Len(Parts) - 1))

LastToken == Parts[Len(Parts)]

PairedCoords == SubSeq(Parts, 2, Len(Parts) - 1)

C3_SkipOrRecord ==
    pc = "returned" =>
        IF Len(Parts) < 7 \/ ~AllFloat(Tail(Parts))
        THEN ret = ReturnNone
        ELSE /\ ret.kind = "value"
             /\ Len(split(ret.value)) = 5
             /\ split(ret.value)[1] = Parts[1]

\* C3 witness: a line of at least 7 tokens skipped for a non-numeric
\* coordinate token
C3_Witness ==
    /\ pc = "returned"
    /\ Len(Parts) >= 7
    /\ ~AllFloat(Tail(Parts))
    /\ ret = ReturnNone
    /\ stdout = <<Msg(ErrorProcessing, <<>>)>>

----------------------------------------------------------------------------
(* convert_file *)

NonBlank(l) == strip(l) # <<>>

Transcodes(l) == process_line(strip(l)).result.kind = "value"

Transcoded(l) == process_line(strip(l)).result.value

\* The non-blank lines that transcode, and those that do not, in file order
OkLines(ls) == SelectSeq(ls, LAMBDA l : NonBlank(l) /\ Transcodes(l))

FailLines(ls) == SelectSeq(ls, LAMBDA l : NonBlank(l) /\ ~Transcodes(l))

\* The lines the loop has consumed so far
Consumed == SubSeq(lines, 1, i)

\* convert_file has written output_file and printed its statistics
Wrote ==
    /\ pc \in {"batch_loop", "done"}
    /\ stdout # <<>>
    /\ stdout[Len(stdout)].text \in {"Statistics", "OK"}

Statistics ==
    IF stdout[Len(stdout)].text = "Statistics"
    THEN stdout[Len(stdout)].nums
    ELSE stdout[Len(stdout) - 1].nums

\* C4: every non-blank line becomes exactly one output line or exactly one
\* skip, and a skip does not stop the loop: after each iteration the output
\* lines and the skip counter count the successful and the failing non-blank
\* lines consumed, and when the file is written the output file has one line
\* per successful line and the reported skip count is the number of failures.
C4_Accounting ==
    /\ pc = "loop" =>
          /\ Len(converted_lines) = Len(OkLines(Consumed))
          /\ skipped_lines = Len(FailLines(Consumed))
    /\ Wrote =>
          /\ i = Len(lines)
          /\ Len(fs[output_file].content) = Len(OkLines(lines))
          /\ Statistics = <<Len(lines), Len(OkLines(lines)), Len(FailLines(lines))>>

\* C4 witness: 3 valid lines and 1 line with 4 coordinate tokens, the short
\* line not last, give 3 output lines and a reported skip count of 1
C4_Witness ==
    /\ Wrote
    /\ Len(lines) = 4
    /\ Len(OkLines(lines)) = 3
    /\ lines[2] = ShortLine
    /\ Len(fs[output_file].content) = 3
    /\ Statistics[3] = 1

\* C5: the output preserves input order, and each output line is the
\* transcoding of its own input line alone: the lines collected, and the
\* file written, are the transcodings of the successful lines in file order.
C5_InputOrder ==
    /\ pc = "loop" =>
          converted_lines =
              [j \in 1..Len(OkLines(Consumed)) |-> Transcoded(OkLines(Consumed)[j])]
    /\ Wrote =>
          fs[output_file].content =
              [j \in 1..Len(OkLines(lines)) |->
                  Transcoded(OkLines(lines)[j]) \o <<WS>>]

\* C5 witness: a written file holding two different output lines
C5_Witness ==
    /\ Wrote
    /\ Len(fs[output_file].content) >= 2
    /\ fs[output_file].content[1] # fs[output_file].content[2]
    /\ Len(FailLines(lines)) >= 1

\* C6: a blank or whitespace-only line adds no output record, nothing to the
\* skip count and no diagnostic.
C6_BlankIgnored ==
    [][(pc = "loop" /\ i < Len(lines) /\ ~NonBlank(lines[i + 1]))
          => /\ i' = i + 1
             /\ converted_lines' = converted_lines
             /\ skipped_lines' = skipped_lines
             /\ stdout' = stdout]_vars

\* C6 witness: the loop has just consumed a blank line
C6_Witness ==
    /\ pc = "loop"
    /\ i > 0
    /\ ~NonBlank(lines[i])
    /\ skipped_lines = 0
    /\ i < Len(lines)

----------------------------------------------------------------------------
(* batch_convert and main *)

\* The .txt entries of the input directory when the process started
Enumerated ==
    {p \in AllPaths :
        p.dir = args.input.dir /\ p.suffix = ".txt" /\ fs0[p].kind # "absent"}

BatchRun == args.batch /\ fs0[args.input].kind # "absent"

\* C7: in batch mode a failure converting one file does not abort the batch:
\* once the files are enumerated, the run ends with every enumerated file
\* attempted exactly once, in enumeration order, and with exit status 0.
C7_BatchIsolation ==
    (BatchRun /\ pc = "done" /\ txt_files # <<>>) =>
        /\ attempts = txt_files
        /\ {attempts[j] : j \in 1..Len(attempts)} = Enumerated
        /\ Len(attempts) = Cardinality(Enumerated)
        /\ exit_code = 0

\* C7 witness: the first of at least two enumerated files failed, and the
\* batch ended with status 0 after attempting the others
C7_Witness ==
    /\ BatchRun
    /\ pc = "done"
    /\ Len(txt_files) >= 2
    /\ fs0[txt_files[1]].kind = "dir"
    /\ Len(attempts) = Len(txt_files)
    /\ exit_code = 0

NoMatchingFiles == BatchRun /\ Enumerated = {} /\ pc = "done"

C9_MissingInputFatal ==
    (pc = "done" /\ ~args.batch /\ fs0[args.input] = Absent) =>
        /\ exit_code = 1
        /\ lines = <<>> /\ i = 0
        /\ converted_lines = <<>> /\ skipped_lines = 0
        /\ stdout = <<Msg("Error", <<>>)>>
        /\ fs = fs0

\* C9 witness: the input is missing, an older output file exists and is
\* left as it was
C9_Witness ==
    /\ pc = "done"
    /\ ~args.batch
    /\ fs0[args.input] = Absent
    /\ fs0[output_file] = File(OldContent)
    /\ fs[output_file] = File(OldContent)
    /\ exit_code = 1

====
